---------------------------- MODULE Spec2Model ----------------------------
(***************************************************************************)
(* The tic-tac-toe component of src/frontend_tic_tac_toe/src/App.js as a   *)
(* state machine.  The React state of App (squares, xIsNext, scores) is    *)
(* the engine state; view is what the last render computed from it (the    *)
(* values the event handlers close over); last records the handler that    *)
(* ran last and its argument.                                              *)
(***************************************************************************)
EXTENDS Integers, Sequences, FiniteSets, TLC

VARIABLES squares, xIsNext, scores, view, last

vars == <<squares, xIsNext, scores, view, last>>

(***************************************************************************)
(* Bounds of the exploration.                                              *)
(***************************************************************************)
\* Clicks are explored while the three counters sum to at most MaxGames.
MaxGames == 1
\* How far outside 0..8 the indices of SpecAnyIndex reach.
OutOfRange == 1
\* Marks SpecAnyIndex places before it stops exploring clicks.
MaxMarks == 3

(***************************************************************************)
(* JavaScript values.                                                      *)
(***************************************************************************)
Null == "null"
Undefined == "undefined"
\* the null of { winner: null, line: null } for the line, which is an array
NoLine == <<>>

\* Array(9): the board has 9 cells, 0..8
BoardSize == 9
Cells == 0 .. (BoardSize - 1)

\* if (v): null and undefined are falsy, "X" and "O" are truthy
Truthy(v) == v \notin {Null, Undefined}

\* An array is a function from its own property keys to values.  Its length
\* is one more than its largest index; an index below the length that is no
\* key is a hole; a negative key is a plain property.
Length(a) ==
  LET idx == {k \in DOMAIN a : k >= 0}
  IN  IF idx = {} THEN 0 ELSE 1 + (CHOOSE k \in idx : \A j \in idx : j <= k)

\* a[i]: undefined when a has no such property
Get(a, i) == IF i \in DOMAIN a THEN a[i] ELSE Undefined

\* [...a]: the elements 0..length-1, holes read as undefined, other
\* properties dropped
Spread(a) == [i \in 0 .. (Length(a) - 1) |-> Get(a, i)]

\* a[i] = v
Put(a, i, v) == [k \in (DOMAIN a) \cup {i} |-> IF k = i THEN v ELSE a[k]]

\* Array(9).fill(null)
EmptyBoard == [i \in Cells |-> Null]

WIN_LINES ==
  << <<0, 1, 2>>, <<3, 4, 5>>, <<6, 7, 8>>,
     <<0, 3, 6>>, <<1, 4, 7>>, <<2, 5, 8>>,
     <<0, 4, 8>>, <<2, 4, 6>> >>

\* Faulty variant: the third cell of the line is not compared.
LineWinsTwoCells(sq, line) ==
  /\ Truthy(Get(sq, line[1]))
  /\ Get(sq, line[1]) = Get(sq, line[2])

\* the test of one line inside calculateWinner's loop
LineWins(sq, line) ==
  /\ Truthy(Get(sq, line[1]))
  /\ Get(sq, line[1]) = Get(sq, line[2])
  /\ Get(sq, line[1]) = Get(sq, line[3])

\* the for loop of calculateWinner from the k-th line on
RECURSIVE WinnerFrom(_, _)
WinnerFrom(sq, k) ==
  IF k > Len(WIN_LINES)
    THEN [winner |-> Null, line |-> NoLine]
    ELSE IF LineWins(sq, WIN_LINES[k])
           THEN [winner |-> Get(sq, WIN_LINES[k][1]), line |-> WIN_LINES[k]]
           ELSE WinnerFrom(sq, k + 1)

calculateWinner(sq) == WinnerFrom(sq, 1)

\* Faulty variant: some instead of every.
isBoardFullSome(sq) == \E i \in {k \in DOMAIN sq : k >= 0} : sq[i] # Null

\* Faulty variant: the last cell is not looked at.
isBoardFullButLast(sq) ==
  \A i \in {k \in DOMAIN sq : k >= 0 /\ k < Length(sq) - 1} : sq[i] # Null

\* squares.every((v) => v !== null): every skips holes and non-index keys
isBoardFull(sq) == \A i \in {k \in DOMAIN sq : k >= 0} : sq[i] # Null

\* One render of App: the values the handlers of that render close over.
Render(sq, x) ==
  LET r    == calculateWinner(sq)
      draw == (~Truthy(r.winner)) /\ isBoardFull(sq)
  IN  [squares     |-> sq,
       xIsNext     |-> x,
       winner      |-> r.winner,
       winningLine |-> r.line,
       draw        |-> draw,
       gameOver    |-> Truthy(r.winner) \/ draw]

InitialScores == [X |-> 0, O |-> 0, draws |-> 0]

Total(s) == s.X + s.O + s.draws

(***************************************************************************)
(* handleSquareClickWithScore, the handler bound to the cells              *)
(* (onSquareClick).  v is the render the handler closes over; prev and s   *)
(* are the state the functional updates are applied to.                    *)
(***************************************************************************)
\* Faulty variant: the gameOver test is missing.
AcceptedAfterGameOver(v, index) == ~Truthy(Get(v.squares, index))

\* Faulty variant: the occupied-cell test is missing.
AcceptedOnOccupied(v, index) == ~v.gameOver

\* if (gameOver) return; if (squares[index]) return;
Accepted(v, index) == (~v.gameOver) /\ (~Truthy(Get(v.squares, index)))

\* Faulty variant: next starts from a fresh empty board, not a copy of prev.
NextSquaresNoCopy(prev, v, index) ==
  Put(EmptyBoard, index, IF v.xIsNext THEN "X" ELSE "O")

\* Faulty variant: the two marks of the conditional are exchanged.
NextSquaresSwapped(prev, v, index) ==
  Put(Spread(prev), index, IF v.xIsNext THEN "O" ELSE "X")

\* const next = [...prev]; next[index] = xIsNext ? "X" : "O";
NextSquares(prev, v, index) ==
  Put(Spread(prev), index, IF v.xIsNext THEN "X" ELSE "O")

\* Faulty variant: nextDraw forgets the full-board test.
NextScoresDrawEarly(s, next) ==
  LET nextResult == calculateWinner(next)
      nextDraw   == ~Truthy(nextResult.winner)
  IN  IF Truthy(nextResult.winner)
        THEN [s EXCEPT ![nextResult.winner] = @ + 1]
        ELSE IF nextDraw
               THEN [s EXCEPT !.draws = @ + 1]
               ELSE s

\* Faulty variant: the full board is tested before the winner.
NextScoresFullFirst(s, next) ==
  LET nextResult == calculateWinner(next)
  IN  IF isBoardFull(next)
        THEN [s EXCEPT !.draws = @ + 1]
        ELSE IF Truthy(nextResult.winner)
               THEN [s EXCEPT ![nextResult.winner] = @ + 1]
               ELSE s

\* the setScores calls made inside the setSquares update
NextScores(s, next) ==
  LET nextResult == calculateWinner(next)
      nextDraw   == (~Truthy(nextResult.winner)) /\ isBoardFull(next)
  IN  IF Truthy(nextResult.winner)
        THEN [s EXCEPT ![nextResult.winner] = @ + 1]
        ELSE IF nextDraw
               THEN [s EXCEPT !.draws = @ + 1]
               ELSE s

\* Faulty variant: the turn is not flipped.
NextTurnStuck(prev) == prev

\* setXIsNext((prev) => !prev)
NextTurn(prev) == ~prev

handleSquareClickWithScore(index) ==
  IF Accepted(view, index)
    THEN /\ squares' = NextSquares(squares, view, index)
         /\ scores' = NextScores(scores, squares')
         /\ xIsNext' = NextTurn(xIsNext)
    ELSE UNCHANGED <<squares, xIsNext, scores>>

(***************************************************************************)
(* handleSquareClick, the handler without the score, which no element is   *)
(* bound to.                                                               *)
(***************************************************************************)
\* if (gameOver) return; if (squares[index]) return;
SimpleAccepted(v, index) == (~v.gameOver) /\ (~Truthy(Get(v.squares, index)))

\* const next = [...prev]; next[index] = xIsNext ? "X" : "O"; return next;
SimpleNextSquares(prev, v, index) ==
  Put(Spread(prev), index, IF v.xIsNext THEN "X" ELSE "O")

\* setXIsNext((prev) => !prev)
SimpleNextTurn(prev) == ~prev

\* what handleSquareClick does to the board and the turn
handleSquareClickMove(index) ==
  IF SimpleAccepted(view, index)
    THEN /\ squares' = SimpleNextSquares(squares, view, index)
         /\ xIsNext' = SimpleNextTurn(xIsNext)
    ELSE UNCHANGED <<squares, xIsNext>>

handleSquareClick(index) ==
  /\ handleSquareClickMove(index)
  /\ UNCHANGED scores

\* Faulty variant: the cells are bound to the handler without the score.
onSquareClickSimple(index) == handleSquareClick(index)

\* const onSquareClick = handleSquareClickWithScore;
onSquareClick(index) == handleSquareClickWithScore(index)

(***************************************************************************)
(* restartGame({ keepScores })                                             *)
(***************************************************************************)
\* Faulty variant: the scores are never cleared.
RestartScoresKept(s, keepScores) == s

\* Faulty variant: the scores are always cleared.
RestartScoresCleared(s, keepScores) == InitialScores

RestartScores(s, keepScores) == IF ~keepScores THEN InitialScores ELSE s

restartGame(keepScores) ==
  /\ squares' = EmptyBoard
  /\ xIsNext' = TRUE
  /\ scores' = RestartScores(scores, keepScores)

(***************************************************************************)
(* The component.  Every event is handled and rendered before the next.    *)
(***************************************************************************)
Init ==
  /\ squares = EmptyBoard
  /\ xIsNext = TRUE
  /\ scores = InitialScores
  /\ view = Render(EmptyBoard, TRUE)
  /\ last = [op |-> "none"]

Click(index) ==
  /\ Total(scores) <= MaxGames
  /\ onSquareClick(index)
  /\ view' = Render(squares', xIsNext')
  /\ last' = [op |-> "click", index |-> index]

Restart(keepScores) ==
  /\ restartGame(keepScores)
  /\ view' = Render(squares', xIsNext')
  /\ last' = [op |-> "restart", keepScores |-> keepScores]

ClickCell == \E index \in Cells : Click(index)

RestartGame == \E keepScores \in BOOLEAN : Restart(keepScores)

Next == ClickCell \/ RestartGame

Spec == Init /\ [][Next]_vars

(***************************************************************************)
(* The same component driven with indices outside the board as well.       *)
(***************************************************************************)
AnyIndex == (0 - OutOfRange) .. (BoardSize - 1 + OutOfRange)

Marks(sq) == Cardinality({k \in DOMAIN sq : Truthy(sq[k])})

ClickAnyIndex ==
  /\ Marks(squares) < MaxMarks
  /\ \E index \in AnyIndex : Click(index)

NextAnyIndex == ClickAnyIndex \/ RestartGame

SpecAnyIndex == Init /\ [][NextAnyIndex]_vars

(***************************************************************************)
(* Games played to the end through the rendered board: a cell's button is  *)
(* disabled once the cell is marked or the game is over, the players keep  *)
(* clicking enabled cells while there is one, and a restart here clears    *)
(* the scores.                                                             *)
(***************************************************************************)
\* disabled={Boolean(value) || gameOver}
Disabled(v, index) == Truthy(Get(v.squares, index)) \/ v.gameOver

ClickEnabledCell == \E index \in Cells : (~Disabled(view, index)) /\ Click(index)

ResetGame == Restart(FALSE)

NextGames == ClickEnabledCell \/ ResetGame

SpecGames == Init /\ [][NextGames]_vars /\ WF_vars(ClickEnabledCell)

(***************************************************************************)
(* Two click handlers in one batch: the second is invoked before the       *)
(* state updates of the first have been rendered, so both close over the   *)
(* same render (view), while the functional updates of the second are      *)
(* applied to the state the first has left.                                *)
(***************************************************************************)
\* the last render shows the current state
Rendered == view.squares = squares /\ view.xIsNext = xIsNext

\* a handler runs and the render is still to come
ClickUnrendered(index) ==
  /\ Rendered
  /\ Total(scores) <= MaxGames
  /\ Marks(squares) < MaxMarks
  /\ onSquareClick(index)
  /\ view' = view
  /\ last' = [op |-> "click", index |-> index]

\* a second handler of the render that is out of date, then the render
ClickStale(index) ==
  /\ ~Rendered
  /\ onSquareClick(index)
  /\ view' = Render(squares', xIsNext')
  /\ last' = [op |-> "click", index |-> index]

\* the render after a single handler
RenderLate ==
  /\ ~Rendered
  /\ view' = Render(squares, xIsNext)
  /\ UNCHANGED <<squares, xIsNext, scores, last>>

FirstClick == \E index \in Cells : ClickUnrendered(index)

SecondClick == \E index \in Cells : ClickStale(index)

NextBatched == FirstClick \/ SecondClick \/ RenderLate \/ RestartGame

SpecBatched == Init /\ [][NextBatched]_vars

(***************************************************************************)
(* calculateWinner and the derived status on every board of X, O and       *)
(* null: a render of each.                                                 *)
(***************************************************************************)
AllBoards == [Cells -> {Null, "X", "O"}]

InitEval ==
  /\ squares \in AllBoards
  /\ xIsNext = TRUE
  /\ scores = InitialScores
  /\ view = Render(EmptyBoard, TRUE)
  /\ last = [op |-> "none"]

Evaluate ==
  /\ view' = Render(squares, xIsNext)
  /\ last' = [op |-> "render"]
  /\ UNCHANGED <<squares, xIsNext, scores>>

NextEval == Evaluate

SpecEval == InitEval /\ [][NextEval]_vars

(***************************************************************************)
(* The vocabulary of the properties: the status of a board stated          *)
(* directly on its cells.                                                  *)
(***************************************************************************)
PlayerMarks == {"X", "O"}

Other(m) == IF m = "X" THEN "O" ELSE "X"

\* the mark that will occupy the next filled cell
CurrentMark(x) == IF x THEN "X" ELSE "O"

FixedLines ==
  << <<0, 1, 2>>, <<3, 4, 5>>, <<6, 7, 8>>,
     <<0, 3, 6>>, <<1, 4, 7>>, <<2, 5, 8>>,
     <<0, 4, 8>>, <<2, 4, 6>> >>

Uniform(sq, l) ==
  /\ sq[l[1]] \in PlayerMarks
  /\ sq[l[2]] = sq[l[1]]
  /\ sq[l[3]] = sq[l[1]]

\* the positions, in the fixed order, of the completed lines of a board
CompletedLines(sq) == {k \in 1 .. 8 : Uniform(sq, FixedLines[k])}

HasLine(sq) == CompletedLines(sq) # {}

LineOf(sq, m) == \E k \in CompletedLines(sq) : sq[FixedLines[k][1]] = m

AllMarked(sq) == \A c \in 0 .. 8 : sq[c] # Null

Won(sq) == HasLine(sq)

Drawn(sq) == (~HasLine(sq)) /\ AllMarked(sq)

InProgress(sq) == (~Won(sq)) /\ (~Drawn(sq))

\* applyMove(index) is accepted in this state
Acceptable(sq, index) == InProgress(sq) /\ index \in 0 .. 8 /\ sq[index] = Null

Engine == <<squares, xIsNext, scores>>

(***************************************************************************)
(* C1.  The score changes only on the accepted move that takes the game    *)
(* from in progress to decided: on that move exactly one counter, the      *)
(* winner's or draws for a draw, grows by exactly 1 and the other two      *)
(* stay; every other click, in particular every click after the game is    *)
(* decided and before a restart, leaves all three counters as they are.    *)
(***************************************************************************)
ScoreOnlyOnDecidingMove ==
  [][ last'.op = "click" =>
        IF InProgress(squares) /\ ~InProgress(squares')
          THEN \/ /\ Drawn(squares')
                  /\ scores' = [scores EXCEPT !.draws = @ + 1]
               \/ \E m \in PlayerMarks :
                    /\ LineOf(squares', m)
                    /\ squares'[last'.index] = m
                    /\ scores' = [scores EXCEPT ![m] = @ + 1]
          ELSE scores' = scores ]_vars

\* A game has just been decided as a draw and counted once.
ScoreOnlyOnDecidingMoveWitness ==
  /\ last.op = "click"
  /\ Drawn(squares)
  /\ scores = [X |-> 0, O |-> 0, draws |-> 1]

(***************************************************************************)
(* C2.  Once the game is over (a line is completed or the board is a       *)
(* draw) a click on any cell leaves the board, the current mark and the    *)
(* three counters unchanged; a decided game is left only by a restart.     *)
(***************************************************************************)
NoMoveAfterGameOver ==
  [][ /\ (last'.op = "click" /\ ~InProgress(squares)) => Engine' = Engine
      /\ (~InProgress(squares) /\ InProgress(squares')) => last'.op = "restart"
    ]_vars

\* The game is over and an empty cell has been clicked since.
NoMoveAfterGameOverWitness ==
  /\ last.op = "click"
  /\ Won(squares)
  /\ squares[last.index] = Null

(***************************************************************************)
(* C3.  A click on a cell that already holds a mark is a no-op: board,     *)
(* current mark and score are unchanged, in every reachable state.         *)
(***************************************************************************)
OccupiedCellIsNoOp ==
  [][ (last'.op = "click" /\ squares[last'.index] # Null) => Engine' = Engine
    ]_vars

\* The game is in progress and the cell clicked last holds the mark of the
\* player to move: that click came after the cell was filled.
OccupiedCellIsNoOpWitness ==
  /\ last.op = "click"
  /\ InProgress(squares)
  /\ squares[last.index] = CurrentMark(xIsNext)

(***************************************************************************)
(* C4.  A click with an index outside 0..8 is rejected silently: the       *)
(* board, still exactly 9 cells, the current mark and the score are left   *)
(* unchanged, and repeating the call changes nothing.                      *)
(***************************************************************************)
OutOfRangeIsRejected ==
  [][ (last'.op = "click" /\ last'.index \notin 0 .. 8) =>
        /\ Engine' = Engine
        /\ DOMAIN squares' = 0 .. 8 ]_vars

(***************************************************************************)
(* C5.  The current mark flips on every accepted move, the move that ends  *)
(* the game included, and the mark just placed is then not the current     *)
(* mark; a rejected move never changes the current mark.                   *)
(***************************************************************************)
MarkFlipsOnAcceptedMove ==
  [][ last'.op = "click" =>
        IF Acceptable(squares, last'.index)
          THEN /\ xIsNext' = ~xIsNext
               /\ squares'[last'.index] = CurrentMark(xIsNext)
               /\ squares'[last'.index] # CurrentMark(xIsNext')
          ELSE xIsNext' = xIsNext ]_vars

\* X has completed a line, which ended the game, and O is the current mark.
MarkFlipsOnAcceptedMoveWitness ==
  /\ last.op = "click"
  /\ LineOf(squares, "X")
  /\ squares[last.index] = "X"
  /\ CurrentMark(xIsNext) = "O"

(***************************************************************************)
(* C6.  Every accepted move changes exactly one cell, from empty to the    *)
(* current mark, and leaves the other 8 cells unchanged; no click turns a  *)
(* marked cell back to empty or into the other mark; only a restart        *)
(* empties cells.                                                          *)
(***************************************************************************)
OneCellPerAcceptedMove ==
  [][ /\ last'.op = "click" =>
           /\ DOMAIN squares' = 0 .. 8
           /\ \A c \in 0 .. 8 : squares[c] # Null => squares'[c] = squares[c]
           /\ Acceptable(squares, last'.index) =>
                /\ squares'[last'.index] = CurrentMark(xIsNext)
                /\ \A c \in (0 .. 8) \ {last'.index} : squares'[c] = squares[c]
      /\ (\E c \in 0 .. 8 : squares[c] # Null /\ squares'[c] = Null) =>
           last'.op = "restart"
    ]_vars

\* A game in progress with at least two marks, the last click having placed
\* the mark of the player who is not to move.
OneCellPerAcceptedMoveWitness ==
  /\ last.op = "click"
  /\ InProgress(squares)
  /\ squares[last.index] = Other(CurrentMark(xIsNext))
  /\ \E c \in (0 .. 8) \ {last.index} : squares[c] # Null

(***************************************************************************)
(* C7.  A restart is possible in every state, in progress, won or drawn,   *)
(* and always yields the empty board with X to move, a game in progress;   *)
(* with keepScores the three counters are unchanged, without it all three  *)
(* become 0.                                                               *)
(***************************************************************************)
RestartAlwaysResets ==
  /\ [](ENABLED Restart(TRUE) /\ ENABLED Restart(FALSE))
  /\ [][ last'.op = "restart" =>
           /\ squares' = [c \in 0 .. 8 |-> Null]
           /\ xIsNext' = TRUE
           /\ InProgress(squares')
           /\ ~view'.gameOver
           /\ scores' = IF last'.keepScores
                          THEN scores
                          ELSE [X |-> 0, O |-> 0, draws |-> 0] ]_vars

\* A restart that cleared a decided game's board and kept its point.
RestartAlwaysResetsWitness ==
  /\ last = [op |-> "restart", keepScores |-> TRUE]
  /\ squares = [c \in 0 .. 8 |-> Null]
  /\ scores.O = 1

(***************************************************************************)
(* C8.  On every board of X, O and null the evaluation reports as winner   *)
(* and winning line the first line, in the order rows 0-1-2, 3-4-5,        *)
(* 6-7-8, columns 0-3-6, 1-4-7, 2-5-8, diagonals 0-4-8, 2-4-6, whose       *)
(* three cells hold the same mark, and no winner and no line when no line  *)
(* is uniform.                                                             *)
(***************************************************************************)
EvaluateReportsFirstLine ==
  LET sq   == view.squares
      done == CompletedLines(sq)
  IN  IF done = {}
        THEN view.winner = Null /\ view.winningLine = NoLine
        ELSE LET k == CHOOSE k \in done : \A j \in done : k <= j
             IN  /\ view.winner = sq[FixedLines[k][1]]
                 /\ view.winningLine = FixedLines[k]

\* A board with the bottom row and the right column completed has been
\* evaluated: the row comes first.
EvaluateReportsFirstLineWitness ==
  /\ last.op = "render"
  /\ CompletedLines(view.squares) = {3, 6}
  /\ view.winner = "O"
  /\ view.winningLine = <<6, 7, 8>>

(***************************************************************************)
(* C9.  In every reachable state the draw flag holds exactly when no line  *)
(* is completed and all cells are marked, the game-over flag exactly when  *)
(* there is a winner or a draw, and winner and draw are never both set:    *)
(* the state is exactly one of in progress, won, drawn.                    *)
(***************************************************************************)
DerivedStatusConsistent ==
  /\ view.squares = squares
  /\ (view.winner # Null) <=> Won(squares)
  /\ view.draw <=> ((view.winner = Null) /\ AllMarked(squares))
  /\ view.gameOver <=> ((view.winner # Null) \/ view.draw)
  /\ ~((view.winner # Null) /\ view.draw)
  /\ Cardinality({st \in {"IN_PROGRESS", "WON", "DRAWN"} :
        \/ st = "IN_PROGRESS" /\ ~view.gameOver
        \/ st = "WON" /\ view.winner # Null
        \/ st = "DRAWN" /\ view.draw}) = 1

\* A full board without a completed line: a draw.
DerivedStatusConsistentWitness ==
  /\ AllMarked(squares)
  /\ ~HasLine(squares)
  /\ view.draw
  /\ view.winner = Null
  /\ view.gameOver

(***************************************************************************)
(* C10.  As claimed: no reachable board has more than one completed line.  *)
(***************************************************************************)
AtMostOneCompletedLine == Cardinality(CompletedLines(squares)) <= 1

(***************************************************************************)
(* C10, amended.  One accepted move can complete two lines at once, so     *)
(* boards with two completed lines are reachable; because moves after a    *)
(* win are rejected, every reachable board has at most two completed       *)
(* lines, all of one mark, and two completed lines share a cell.           *)
(***************************************************************************)
CompletedLinesOfOneMove ==
  LET done == CompletedLines(squares)
      cells(k) == {FixedLines[k][1], FixedLines[k][2], FixedLines[k][3]}
  IN  /\ Cardinality(done) <= 2
      /\ \A j, k \in done : squares[FixedLines[j][1]] = squares[FixedLines[k][1]]
      /\ \A j, k \in done : cells(j) \cap cells(k) # {}

\* Two lines completed by X, whose last move was their common cell.
CompletedLinesOfOneMoveWitness ==
  /\ Cardinality(CompletedLines(squares)) = 2
  /\ last.op = "click"
  /\ squares[last.index] = "X"
  /\ \A k \in CompletedLines(squares) :
       last.index \in {FixedLines[k][1], FixedLines[k][2], FixedLines[k][3]}

(***************************************************************************)
(* C11.  An accepted move has exactly these effects: one cell write, one   *)
(* turn flip and a score change of zero or one increment.  When the        *)
(* resulting board has neither a completed line nor all cells marked the   *)
(* three counters are unchanged; when it ends the game exactly one         *)
(* counter grows, by 1, and the other two are unchanged.                   *)
(***************************************************************************)
ScoreKeys == {"X", "O", "draws"}

AcceptedMoveEffects ==
  [][ (last'.op = "click" /\ Acceptable(squares, last'.index)) =>
        /\ {c \in 0 .. 8 : squares'[c] # squares[c]} = {last'.index}
        /\ xIsNext' # xIsNext
        /\ \A k \in ScoreKeys : scores'[k] \in {scores[k], scores[k] + 1}
        /\ Cardinality({k \in ScoreKeys : scores'[k] # scores[k]}) =
             IF InProgress(squares') THEN 0 ELSE 1 ]_vars

\* O has just completed a line: one cell written, X to move again, one
\* point for O and none for the others.
AcceptedMoveEffectsWitness ==
  /\ last.op = "click"
  /\ LineOf(squares, "O")
  /\ squares[last.index] = "O"
  /\ xIsNext
  /\ scores = [X |-> 0, O |-> 1, draws |-> 0]

(***************************************************************************)
(* Scripted games: the board after the first k moves of a sequence of      *)
(* cells, marks alternating from X.                                        *)
(***************************************************************************)
Played(moves, k) ==
  [c \in 0 .. 8 |->
     IF \E j \in 1 .. k : moves[j] = c
       THEN LET j == CHOOSE j \in 1 .. k : moves[j] = c
            IN  IF j % 2 = 1 THEN "X" ELSE "O"
       ELSE Null]

\* the engine after the first k moves of a game on a fresh engine
After(moves, k) ==
  /\ xIsNext = (k % 2 = 0)
  /\ scores = [X |-> 0, O |-> 0, draws |-> 0]
  /\ squares = Played(moves, k)

TopRowMoves == <<0, 3, 1, 4, 2>>

DrawMoves == <<0, 1, 2, 4, 3, 5, 7, 6, 8>>

(***************************************************************************)
(* C12.  From a fresh engine the moves 0, 3, 1, 4, 2 are all accepted,     *)
(* with marks X, O, X, O, X, and end in a win for X on line 0-1-2 with     *)
(* score X = 1, O = 0, draws = 0.                                          *)
(***************************************************************************)
TopRowScenario ==
  [][ \A k \in 0 .. 4 :
        (last'.op = "click" /\ last'.index = TopRowMoves[k + 1]
           /\ After(TopRowMoves, k)) =>
          /\ squares' = Played(TopRowMoves, k + 1)
          /\ xIsNext' = ~xIsNext
          /\ IF k + 1 < 5
               THEN /\ scores' = scores
                    /\ view'.winner = Null
                    /\ ~view'.gameOver
               ELSE /\ scores' = [X |-> 1, O |-> 0, draws |-> 0]
                    /\ view'.winner = "X"
                    /\ view'.winningLine = <<0, 1, 2>>
                    /\ view'.gameOver ]_vars

\* The end of that game.
TopRowScenarioWitness ==
  /\ squares = Played(TopRowMoves, 5)
  /\ last = [op |-> "click", index |-> 2]
  /\ ~xIsNext
  /\ view.winner = "X"
  /\ view.winningLine = <<0, 1, 2>>
  /\ scores = [X |-> 1, O |-> 0, draws |-> 0]

(***************************************************************************)
(* C13.  From a fresh engine the moves 0, 1, 2, 4, 3, 5, 7, 6, 8 are all   *)
(* nine accepted, marks alternating from X; no prefix of them produces a   *)
(* winner; the final state is a draw without a winner and the draws        *)
(* counter has grown once.                                                 *)
(***************************************************************************)
DrawScenario ==
  [][ \A k \in 0 .. 8 :
        (last'.op = "click" /\ last'.index = DrawMoves[k + 1]
           /\ After(DrawMoves, k)) =>
          /\ squares' = Played(DrawMoves, k + 1)
          /\ xIsNext' = ~xIsNext
          /\ view'.winner = Null
          /\ view'.winningLine = NoLine
          /\ IF k + 1 < 9
               THEN /\ scores' = scores
                    /\ ~view'.draw
                    /\ ~view'.gameOver
               ELSE /\ scores' = [X |-> 0, O |-> 0, draws |-> 1]
                    /\ view'.draw
                    /\ view'.gameOver ]_vars

\* The end of that game.
DrawScenarioWitness ==
  /\ squares = Played(DrawMoves, 9)
  /\ last = [op |-> "click", index |-> 8]
  /\ view.draw
  /\ view.winner = Null
  /\ scores = [X |-> 0, O |-> 0, draws |-> 1]

(***************************************************************************)
(* C14.  Scores accumulate across rounds: a restart that keeps the scores  *)
(* leaves the three counters as they are, every game won by X adds 1 to    *)
(* what X already has, so two games won by X with such a restart between   *)
(* them leave X = 2 and a further such restart keeps it at 2; a counter    *)
(* goes down only on a restart that does not keep the scores.              *)
(***************************************************************************)
ScoresAccumulate ==
  [][ /\ (last'.op = "restart" /\ last'.keepScores) => scores' = scores
      /\ (\E k \in ScoreKeys : scores'[k] < scores[k]) =>
           last' = [op |-> "restart", keepScores |-> FALSE]
      /\ (last'.op = "click" /\ LineOf(squares', "X") /\ InProgress(squares)) =>
           scores' = [scores EXCEPT !.X = @ + 1] ]_vars

\* The restart after the second of two games won by X.
ScoresAccumulateWitness ==
  /\ last = [op |-> "restart", keepScores |-> TRUE]
  /\ squares = [c \in 0 .. 8 |-> Null]
  /\ scores = [X |-> 2, O |-> 0, draws |-> 0]

(***************************************************************************)
(* C15.  When the accepted move that fills the last empty cell also        *)
(* completes a line the game is won, not drawn: the draw flag is false,    *)
(* the winner is the mark just placed, its counter grows by 1 and the      *)
(* draws counter does not.                                                 *)
(***************************************************************************)
LastCellWinIsWon ==
  [][ (last'.op = "click" /\ Acceptable(squares, last'.index)
         /\ AllMarked(squares') /\ HasLine(squares')) =>
        /\ ~view'.draw
        /\ view'.gameOver
        /\ view'.winner = squares'[last'.index]
        /\ scores' = [scores EXCEPT ![view'.winner] = @ + 1]
        /\ scores'.draws = scores.draws ]_vars

\* A full board won by X on the ninth move, counted for X and not as a draw.
LastCellWinIsWonWitness ==
  /\ last.op = "click"
  /\ AllMarked(squares)
  /\ HasLine(squares)
  /\ squares[last.index] = "X"
  /\ last.index \in {FixedLines[k][j] : k \in CompletedLines(squares), j \in 1 .. 3}
  /\ ~view.draw
  /\ scores = [X |-> 1, O |-> 0, draws |-> 0]

(***************************************************************************)
(* C16.  The two move handlers agree on board and turn: in every           *)
(* reachable state and for every cell, handleSquareClick and               *)
(* handleSquareClickWithScore accept or reject the same click and produce  *)
(* the same board and the same current mark; they differ only in the       *)
(* score, which the handler bound to the cells updates when a game is      *)
(* decided.                                                                *)
(***************************************************************************)
HandlersAgree ==
  /\ [](\A i \in 0 .. 8 : SimpleAccepted(view, i) <=> Accepted(view, i))
  /\ [][ last'.op = "click" =>
           /\ handleSquareClickMove(last'.index)
           /\ (InProgress(squares) /\ ~InProgress(squares')) => scores' # scores
       ]_vars

\* O has won on the second diagonal by a click both handlers accept, and
\* the point has been counted; both handlers now reject every cell.
HandlersAgreeWitness ==
  /\ last.op = "click"
  /\ last.index \in {2, 4, 6}
  /\ view.winner = "O"
  /\ view.winningLine = <<2, 4, 6>>
  /\ scores.O = 1
  /\ \A i \in 0 .. 8 : ~SimpleAccepted(view, i) /\ ~Accepted(view, i)

(***************************************************************************)
(* C17.  In every state reached by clicks on cells 0..8 and restarts the   *)
(* number of X cells minus the number of O cells is 0 or 1, and the        *)
(* current mark is X exactly when the two numbers are equal.               *)
(***************************************************************************)
Count(sq, m) == Cardinality({c \in 0 .. 8 : sq[c] = m})

MarksBalanced ==
  /\ Count(squares, "X") - Count(squares, "O") \in {0, 1}
  /\ xIsNext <=> (Count(squares, "X") = Count(squares, "O"))

\* A full board: five X, four O, and O the current mark.
MarksBalancedWitness ==
  /\ Count(squares, "X") = 5
  /\ Count(squares, "O") = 4
  /\ ~xIsNext
  /\ last.op = "click"

(***************************************************************************)
(* C18.  In every reachable won state the winner is the player who placed  *)
(* the last mark: the winner is not the current mark, only one mark has a  *)
(* completed line, and the point went to the player whose move ended the   *)
(* game.                                                                   *)
(***************************************************************************)
WinnerMovedLast ==
  /\ [](Won(squares) =>
          /\ view.winner \in PlayerMarks
          /\ view.winner # CurrentMark(xIsNext)
          /\ LineOf(squares, view.winner)
          /\ ~LineOf(squares, Other(view.winner)))
  /\ [][ (last'.op = "click" /\ InProgress(squares) /\ Won(squares')) =>
           /\ squares[last'.index] = Null
           /\ view'.winner = squares'[last'.index]
           /\ view'.winner = CurrentMark(xIsNext)
           /\ scores' = [scores EXCEPT ![squares'[last'.index]] = @ + 1]
       ]_vars

\* X has won with its third mark, holds the point, and O is the current mark.
WinnerMovedLastWitness ==
  /\ last.op = "click"
  /\ squares[last.index] = "X"
  /\ view.winner = "X"
  /\ Count(squares, "X") = 3
  /\ CurrentMark(xIsNext) = "O"
  /\ scores.X = 1

(***************************************************************************)
(* C19.  Every game ends.  Each accepted move adds one mark, a board       *)
(* never holds more than 9 marks, so at most 9 moves are accepted between  *)
(* two restarts, and no game is over with fewer than 5 marks; and when     *)
(* the players keep making accepted moves, a game that is not restarted    *)
(* reaches a win or a draw.                                                *)
(***************************************************************************)
EveryGameEnds ==
  /\ [](Marks(squares) <= 9)
  /\ []((~InProgress(squares)) => Marks(squares) >= 5)
  /\ [][ (last'.op = "click" /\ squares' # squares) =>
           Marks(squares') = Marks(squares) + 1 ]_vars
  /\ ([]<>(~InProgress(squares)) \/ []<><<ResetGame>>_vars)

\* A game that is over after exactly five accepted moves.
EveryGameEndsWitness ==
  /\ last.op = "click"
  /\ Won(squares)
  /\ Marks(squares) = 5
  /\ squares[last.index] = "X"

(***************************************************************************)
(* C20.  Strict alternation and single scoring hold even when two click    *)
(* handlers run against the same render: every click that changes the      *)
(* engine places the mark of the current turn, so two moves in a row       *)
(* place different marks, it writes a cell that was empty, and it changes  *)
(* no counter once the game is decided, so a game is scored at most once.  *)
(***************************************************************************)
AlternationUnderSharedRender ==
  [][ (last'.op = "click" /\ Engine' # Engine) =>
        /\ squares'[last'.index] = CurrentMark(xIsNext)
        /\ squares[last'.index] = Null
        /\ (~InProgress(squares)) => scores' = scores ]_vars

===========================================================================
